---- MODULE Spec2Model ----
(***************************************************************************)
(* Model of synchronization.py: OpenProject work packages reconciled with  *)
(* Google Calendar events.  Python str values are TLA+ strings; a Python   *)
(* value that may be None is None (<<>>) or Some(v) (<<v>>).               *)
(***************************************************************************)
EXTENDS Integers, Sequences, FiniteSets, TLC

None == <<>>
Some(v) == <<v>>
Val(o) == o[1]

(***************************************************************************)
(* Python str methods used by the parsers.                                 *)
(***************************************************************************)
Ch(s, i) == SubSeq(s, i, i)

IsSpace(c) == c \in {" ", "\n", "\t"}

IsDigit(c) == c \in {"0", "1", "2", "3", "4", "5", "6", "7", "8", "9"}

RECURSIVE LStrip(_)
LStrip(s) == IF Len(s) > 0 /\ IsSpace(Ch(s, 1)) THEN LStrip(Tail(s)) ELSE s

RECURSIVE RStrip(_)
RStrip(s) ==
    IF Len(s) > 0 /\ IsSpace(Ch(s, Len(s)))
    THEN RStrip(SubSeq(s, 1, Len(s) - 1))
    ELSE s

\* str.strip()
Strip(s) == LStrip(RStrip(s))

\* str.rstrip(chars) for a single character
RECURSIVE RStripCh(_, _)
RStripCh(s, c) ==
    IF Len(s) > 0 /\ Ch(s, Len(s)) = c
    THEN RStripCh(SubSeq(s, 1, Len(s) - 1), c)
    ELSE s

\* str.startswith(p)
StartsWith(s, p) == Len(s) >= Len(p) /\ SubSeq(s, 1, Len(p)) = p

\* str.find(p) + 1: the first position of p in s, 0 when absent
RECURSIVE FindFrom(_, _, _)
FindFrom(s, p, i) ==
    IF i + Len(p) - 1 > Len(s) THEN 0
    ELSE IF SubSeq(s, i, i + Len(p) - 1) = p THEN i
    ELSE FindFrom(s, p, i + 1)

Find(s, p) == FindFrom(s, p, 1)

\* p in s
Contains(s, p) == Find(s, p) > 0

\* str.replace(p, ""), p non-empty
RECURSIVE Remove(_, _)
Remove(s, p) ==
    LET i == Find(s, p)
    IN  IF i = 0 THEN s
        ELSE SubSeq(s, 1, i - 1) \o Remove(SubSeq(s, i + Len(p), Len(s)), p)

\* str.split(sep), sep non-empty: always at least one part
RECURSIVE Split(_, _)
Split(s, sep) ==
    LET i == Find(s, sep)
    IN  IF i = 0 THEN <<s>>
        ELSE <<SubSeq(s, 1, i - 1)>> \o Split(SubSeq(s, i + Len(sep), Len(s)), sep)

\* str.partition(sep): <<before, sep, after>>, or <<s, "", "">> when sep is absent
Partition3(s, sep) ==
    LET i == Find(s, sep)
    IN  IF i = 0 THEN <<s, "", "">>
        ELSE <<SubSeq(s, 1, i - 1), sep, SubSeq(s, i + Len(sep), Len(s))>>

\* [x.strip() for x in s.splitlines() if x.strip()], "\n" being the only line break
RECURSIVE StripNonEmpty(_)
StripNonEmpty(parts) ==
    IF parts = <<>> THEN <<>>
    ELSE IF Strip(Head(parts)) = "" THEN StripNonEmpty(Tail(parts))
    ELSE <<Strip(Head(parts))>> \o StripNonEmpty(Tail(parts))

StrippedLines(s) == StripNonEmpty(Split(s, "\n"))

(***************************************************************************)
(* int(), float() and number formatting.                                   *)
(***************************************************************************)
DigitVal(c) ==
    CASE c = "0" -> 0 [] c = "1" -> 1 [] c = "2" -> 2 [] c = "3" -> 3
      [] c = "4" -> 4 [] c = "5" -> 5 [] c = "6" -> 6 [] c = "7" -> 7
      [] c = "8" -> 8 [] c = "9" -> 9

DigitStr(d) == Ch("0123456789", d + 1)

RECURSIVE AllDigits(_)
AllDigits(s) == s = "" \/ (IsDigit(Ch(s, 1)) /\ AllDigits(Tail(s)))

RECURSIVE DigitsVal(_, _)
DigitsVal(s, acc) ==
    IF s = "" THEN acc ELSE DigitsVal(Tail(s), 10 * acc + DigitVal(Ch(s, 1)))

HasSign(s) == Len(s) > 0 /\ Ch(s, 1) \in {"+", "-"}

Unsigned(s) == IF HasSign(s) THEN Tail(s) ELSE s

\* whether int(s) returns: optional blanks, optional sign, one or more digits
IsInt(s) == LET t == Unsigned(Strip(s)) IN t /= "" /\ AllDigits(t)

\* int(s), for IsInt(s)
ToInt(s) ==
    LET t == Strip(s)
        n == DigitsVal(Unsigned(t), 0)
    IN  IF HasSign(t) /\ Ch(t, 1) = "-" THEN 0 - n ELSE n

\* whether int(float(s)) returns: digits with an optional "." (no exponent, inf, nan)
IsFloat(s) ==
    LET t == Unsigned(Strip(s))
        p == Partition3(t, ".")
    IN  /\ AllDigits(p[1]) /\ AllDigits(p[3])
        /\ p[1] \o p[3] /= ""

\* slip: the seconds rounded to the nearest integer
FloatTrunc_Rounds(s) ==
    LET t == Strip(s)
        p == Partition3(Unsigned(t), ".")
        up == p[3] /= "" /\ DigitVal(Ch(p[3], 1)) >= 5
        n == DigitsVal(p[1], 0) + (IF up THEN 1 ELSE 0)
    IN  IF HasSign(t) /\ Ch(t, 1) = "-" THEN 0 - n ELSE n

\* int(float(s)), for IsFloat(s): the fraction is dropped
FloatTrunc(s) ==
    LET t == Strip(s)
        n == DigitsVal(Partition3(Unsigned(t), ".")[1], 0)
    IN  IF HasSign(t) /\ Ch(t, 1) = "-" THEN 0 - n ELSE n

\* str(n) of a non-negative int
RECURSIVE NatToStr(_)
NatToStr(n) == IF n < 10 THEN DigitStr(n) ELSE NatToStr(n \div 10) \o DigitStr(n % 10)

\* f"{n}" of an int
IntToStr(n) == IF n < 0 THEN "-" \o NatToStr(0 - n) ELSE NatToStr(n)

\* "%02d" and "%04d" as datetime.isoformat() pads its fields
Pad2(n) == IF n < 10 THEN "0" \o NatToStr(n) ELSE NatToStr(n)

Pad4(n) ==
    IF n < 10 THEN "000" \o NatToStr(n)
    ELSE IF n < 100 THEN "00" \o NatToStr(n)
    ELSE IF n < 1000 THEN "0" \o NatToStr(n)
    ELSE NatToStr(n)

(***************************************************************************)
(* datetime: the constructor's range checks, + timedelta(hours=1) and      *)
(* isoformat().  The host's zone is taken to be UTC.                       *)
(***************************************************************************)
IsLeap(y) == (y % 4 = 0 /\ y % 100 /= 0) \/ y % 400 = 0

DaysInMonth(y, m) ==
    IF m = 2 THEN (IF IsLeap(y) THEN 29 ELSE 28)
    ELSE IF m \in {4, 6, 9, 11} THEN 30 ELSE 31

\* args[i], or 0 for a parameter datetime() was not given
Arg(args, i) == IF i <= Len(args) THEN args[i] ELSE 0

\* whether datetime(*args) returns: year, month, day[, hour, minute, second, microsecond]
DatetimeOk(args) ==
    /\ Len(args) >= 3 /\ Len(args) <= 7
    /\ args[1] >= 1 /\ args[1] <= 9999
    /\ args[2] >= 1 /\ args[2] <= 12
    /\ args[3] >= 1 /\ args[3] <= DaysInMonth(args[1], args[2])
    /\ Arg(args, 4) >= 0 /\ Arg(args, 4) <= 23
    /\ Arg(args, 5) >= 0 /\ Arg(args, 5) <= 59
    /\ Arg(args, 6) >= 0 /\ Arg(args, 6) <= 59
    /\ Arg(args, 7) >= 0 /\ Arg(args, 7) <= 999999

Datetime(args) ==
    [year |-> args[1], month |-> args[2], day |-> args[3], hour |-> Arg(args, 4),
     minute |-> Arg(args, 5), second |-> Arg(args, 6), microsecond |-> Arg(args, 7)]

\* whether dt + timedelta(hours=1) returns (OverflowError past year 9999)
PlusHourOk(dt) ==
    ~(dt.year = 9999 /\ dt.month = 12 /\ dt.day = 31 /\ dt.hour = 23)

\* dt + timedelta(hours=1)
PlusHour(dt) ==
    IF dt.hour < 23 THEN [dt EXCEPT !.hour = dt.hour + 1]
    ELSE IF dt.day < DaysInMonth(dt.year, dt.month)
         THEN [dt EXCEPT !.hour = 0, !.day = dt.day + 1]
    ELSE IF dt.month < 12
         THEN [dt EXCEPT !.hour = 0, !.day = 1, !.month = dt.month + 1]
    ELSE [dt EXCEPT !.hour = 0, !.day = 1, !.month = 1, !.year = dt.year + 1]

RECURSIVE Pad6(_, _)
Pad6(s, n) == IF Len(s) >= n THEN s ELSE Pad6("0" \o s, n)

\* date.isoformat()
DateIso(dt) == Pad4(dt.year) \o "-" \o Pad2(dt.month) \o "-" \o Pad2(dt.day)

\* time.isoformat()
TimeIso(dt) ==
    Pad2(dt.hour) \o ":" \o Pad2(dt.minute) \o ":" \o Pad2(dt.second)
    \o (IF dt.microsecond = 0 THEN "" ELSE "." \o Pad6(NatToStr(dt.microsecond), 6))

\* dt.astimezone().isoformat()
AwareIso(dt) == DateIso(dt) \o "T" \o TimeIso(dt) \o "+00:00"

\* [int(part) for part in parts]
RECURSIVE Ints(_)
Ints(parts) == IF parts = <<>> THEN <<>> ELSE <<ToInt(Head(parts))>> \o Ints(Tail(parts))

AllInts(parts) == \A i \in DOMAIN parts : IsInt(parts[i])

(***************************************************************************)
(* str_to_date(due_date, due_hour); due_hour is None or Some(str).         *)
(* The result is [raised |-> TRUE] when the function raises.               *)
(***************************************************************************)
\* whether the int()/float() conversions of the time parts return
HourPartsOk(hp) ==
    CASE Len(hp) = 3 -> IsInt(hp[1]) /\ IsInt(hp[2]) /\ IsFloat(hp[3])
      [] Len(hp) = 2 -> IsInt(hp[1]) /\ IsInt(hp[2])
      [] Len(hp) = 1 -> IsInt(hp[1])
      [] OTHER -> TRUE

HourParts(hp) ==
    CASE Len(hp) = 3 -> <<ToInt(hp[1]), ToInt(hp[2]), FloatTrunc(hp[3])>>
      [] Len(hp) = 2 -> <<ToInt(hp[1]), ToInt(hp[2]), 0>>
      [] Len(hp) = 1 -> <<ToInt(hp[1]), 0, 0>>
      [] OTHER -> <<0, 0, 0>>

str_to_date(due_date, due_hour) ==
    LET dp == Split(due_date, "-")
        truthy == due_hour /= None /\ Val(due_hour) /= ""
        hp == IF truthy THEN Split(Val(due_hour), ":") ELSE <<>>
    IN  IF ~AllInts(dp) THEN [raised |-> TRUE]
        ELSE IF truthy /\ ~HourPartsOk(hp) THEN [raised |-> TRUE]
        ELSE LET args == Ints(dp) \o (IF truthy THEN HourParts(hp) ELSE <<0, 0, 0>>)
             IN  IF DatetimeOk(args)
                 THEN [raised |-> FALSE, value |-> Datetime(args)]
                 ELSE [raised |-> TRUE]

(***************************************************************************)
(* wp_to_event(work_package): the body sent to the calendar, or            *)
(* [raised |-> TRUE] when str_to_date or the timedelta addition raises.    *)
(***************************************************************************)
Reminders ==
    [useDefault |-> FALSE,
     overrides |-> <<[method |-> "popup", minutes |-> 24 * 60],
                     [method |-> "popup", minutes |-> 30]>>]

EventDescription(wp) ==
    wp.description \o "\n"
    \o "Parent: " \o wp.parent \o "\n"
    \o "Assignee: " \o wp.assignee \o "\n"
    \o "UpdatedAt: " \o wp.updated_at \o "\n"
    \o "DueHour: " \o wp.due_hour

wp_to_event(wp) ==
    LET event_start == str_to_date(wp.due_date, Some(wp.due_hour))
    IN  IF event_start.raised \/ ~PlusHourOk(event_start.value)
        THEN [raised |-> TRUE]
        ELSE [raised |-> FALSE,
              summary |-> Some(IntToStr(wp.wp_id) \o ":" \o wp.subject),
              description |-> Some(EventDescription(wp)),
              start |-> [dateTime |-> Some(AwareIso(event_start.value)), date |-> None],
              end |-> [dateTime |-> Some(AwareIso(PlusHour(event_start.value))),
                       date |-> None],
              reminders |-> Reminders]

(***************************************************************************)
(* parse_workpackages.  A raw work package is a record                     *)
(*   [id, subject, description, parent, assignee, dueDate, customField19,  *)
(*    createdAt, updatedAt]                                                *)
(* whose subject, description, parent, assignee, dueDate and customField19 *)
(* are None (JSON null, or no such key where the code reads it without a   *)
(* default) or Some(value); description holds [raw, html], parent holds    *)
(* [href, title].                                                          *)
(***************************************************************************)
NotAssigned == "Nao designado a nenhuma pessoa"

Truthy(o) == o /= None /\ Val(o) /= ""

\* lines 140-141, outside the try: the exception leaves parse_workpackages
SuppressionCheckRaises(elem) == elem.description = None

\* lines 140-142: the record is skipped
Suppressed(elem) ==
    LET raw_desc == Val(elem.description).raw
    IN  raw_desc = None \/ Split(Val(raw_desc), "\n")[1] = "!!!"

\* href.rstrip('/').split('/')[-1]
LastSegment(href) ==
    LET parts == Split(RStripCh(href, "/"), "/") IN parts[Len(parts)]

ParentOf(elem) ==
    IF elem.parent /= None
       /\ Val(elem.parent).href /= "" /\ Val(elem.parent).title /= ""
    THEN LastSegment(Val(elem.parent).href) \o ":" \o Val(elem.parent).title
    ELSE "No parent"

\* lines 144-191, the body of the try: which statement raises, if any
RecordError(elem) ==
    IF elem.subject = None THEN "AttributeError"
    ELSE IF ~Truthy(elem.dueDate) /\ Len(Split(elem.createdAt, "T")) > 2
    THEN "ValueError"
    ELSE ""

\* lines 145-186: tmp
CanonicalTask(elem) ==
    LET created == Split(elem.createdAt, "T")
    IN  [wp_id |-> elem.id,
         subject |-> Strip(Val(elem.subject)),
         description |-> Val(elem.description).html,
         parent |-> ParentOf(elem),
         assignee |-> IF elem.assignee = None THEN NotAssigned ELSE Val(elem.assignee),
         due_date |-> IF Truthy(elem.dueDate) THEN Val(elem.dueDate) ELSE created[1],
         due_hour |->
             IF Truthy(elem.dueDate)
             THEN (IF Truthy(elem.customField19) THEN Val(elem.customField19)
                   ELSE "00:00:00")
             ELSE IF Len(created) = 2 THEN RStripCh(created[2], "Z")
             ELSE "00:00:00",
         updated_at |-> elem.updatedAt]

\* d[k] = v on a dict
Put(d, k, v) == [j \in DOMAIN d \cup {k} |-> IF j = k THEN v ELSE d[j]]

EmptyDict == [j \in {} |-> None]

\* the for loop of lines 138-191 over elements[i..], from the accumulated result
RECURSIVE ParseWpsFrom(_, _, _)
ParseWpsFrom(elements, i, acc) ==
    IF i > Len(elements) THEN acc
    ELSE LET elem == elements[i]
         IN  IF SuppressionCheckRaises(elem)
             THEN [raised |-> TRUE, parsed_wps |-> EmptyDict, err |-> <<>>]
             ELSE IF Suppressed(elem) THEN ParseWpsFrom(elements, i + 1, acc)
             ELSE IF RecordError(elem) /= ""
             THEN ParseWpsFrom(elements, i + 1,
                      [acc EXCEPT !.err = Append(@, <<elem, RecordError(elem)>>)])
             ELSE ParseWpsFrom(elements, i + 1,
                      [acc EXCEPT !.parsed_wps = Put(@, elem.id, CanonicalTask(elem))])

parse_workpackages(elements) ==
    ParseWpsFrom(elements, 1, [raised |-> FALSE, parsed_wps |-> EmptyDict, err |-> <<>>])

(***************************************************************************)
(* parse_events.  A raw event is [id, summary, description, end] with      *)
(* summary and description None or Some(str) and end = [dateTime, date],   *)
(* each None or Some(str).                                                 *)
(***************************************************************************)
OrEmpty(o) == IF o = None THEN "" ELSE Val(o)

\* isoparse(s) returns for YYYY-MM-DDTHH:MM:SS followed by an optional offset
IsoParseOk(s) ==
    /\ Len(s) >= 19
    /\ AllDigits(SubSeq(s, 1, 4)) /\ Ch(s, 5) = "-" /\ AllDigits(SubSeq(s, 6, 7))
    /\ Ch(s, 8) = "-" /\ AllDigits(SubSeq(s, 9, 10)) /\ Ch(s, 11) = "T"
    /\ AllDigits(SubSeq(s, 12, 13)) /\ Ch(s, 14) = ":" /\ AllDigits(SubSeq(s, 15, 16))
    /\ Ch(s, 17) = ":" /\ AllDigits(SubSeq(s, 18, 19))
    /\ DatetimeOk(<<ToInt(SubSeq(s, 1, 4)), ToInt(SubSeq(s, 6, 7)),
                    ToInt(SubSeq(s, 9, 10)), ToInt(SubSeq(s, 12, 13)),
                    ToInt(SubSeq(s, 15, 16)), ToInt(SubSeq(s, 18, 19))>>)

\* lines 256-262: the labelled lines, later lines overriding earlier ones
RECURSIVE ScanLabels(_, _)
ScanLabels(lines, tmp) ==
    IF lines = <<>> THEN tmp
    ELSE LET line == Head(lines)
         IN  ScanLabels(Tail(lines),
                 IF StartsWith(line, "Assignee:")
                 THEN [tmp EXCEPT !.assignee = Some(Strip(Remove(line, "Assignee:")))]
                 ELSE IF StartsWith(line, "UpdatedAt:")
                 THEN [tmp EXCEPT !.updated_at = Some(Strip(Remove(line, "UpdatedAt:")))]
                 ELSE IF StartsWith(line, "DueHour:")
                 THEN [tmp EXCEPT !.due_hour = Some(Strip(Remove(line, "DueHour:")))]
                 ELSE tmp)

\* lines 228-283, the body of the try: which statement raises, if any
EventError(elem) ==
    LET summary == OrEmpty(elem.summary)
    IN  IF ~Contains(summary, ":") THEN "ValueError: Summary invalido"
        ELSE IF ~IsInt(Partition3(summary, ":")[1]) THEN "ValueError: WP ID nao e inteiro"
        ELSE IF Truthy(elem.end.dateTime) /\ ~IsoParseOk(Val(elem.end.dateTime))
        THEN "ValueError: isoparse"
        ELSE ""

\* lines 229-281: tmp
CanonicalEvent(elem) ==
    LET parts == Partition3(OrEmpty(elem.summary), ":")
        labels == ScanLabels(StrippedLines(OrEmpty(elem.description)),
                             [assignee |-> None, updated_at |-> None, due_hour |-> None])
        stamp == Val(elem.end.dateTime)
    IN  [event_id |-> elem.id,
         wp_id |-> ToInt(parts[1]),
         subject |-> Strip(parts[3]),
         assignee |-> labels.assignee,
         updated_at |-> labels.updated_at,
         due_date |->
             IF Truthy(elem.end.dateTime) THEN Some(SubSeq(stamp, 1, 10))
             ELSE IF Truthy(elem.end.date) THEN elem.end.date
             ELSE None,
         due_hour |->
             IF Truthy(labels.due_hour) THEN labels.due_hour
             ELSE IF Truthy(elem.end.dateTime) THEN Some(SubSeq(stamp, 12, 19))
             ELSE IF Truthy(elem.end.date) THEN Some("00:00:00")
             ELSE labels.due_hour]

\* slip: the try around the loop, so the first bad record ends it
RECURSIVE ParseEventsFrom_TryAroundLoop(_, _, _)
ParseEventsFrom_TryAroundLoop(events, i, acc) ==
    IF i > Len(events) THEN acc
    ELSE LET elem == events[i]
         IN  IF EventError(elem) /= ""
             THEN [acc EXCEPT !.err = Append(@, <<elem, EventError(elem)>>)]
             ELSE ParseEventsFrom_TryAroundLoop(events, i + 1,
                      [acc EXCEPT !.parsed_events =
                           Put(@, CanonicalEvent(elem).wp_id, CanonicalEvent(elem))])

\* slip: an id already in the mapping is not overwritten
RECURSIVE ParseEventsFrom_KeepsFirst(_, _, _)
ParseEventsFrom_KeepsFirst(events, i, acc) ==
    IF i > Len(events) THEN acc
    ELSE LET elem == events[i]
         IN  IF EventError(elem) /= ""
             THEN ParseEventsFrom_KeepsFirst(events, i + 1,
                      [acc EXCEPT !.err = Append(@, <<elem, EventError(elem)>>)])
             ELSE IF CanonicalEvent(elem).wp_id \in DOMAIN acc.parsed_events
             THEN ParseEventsFrom_KeepsFirst(events, i + 1, acc)
             ELSE ParseEventsFrom_KeepsFirst(events, i + 1,
                      [acc EXCEPT !.parsed_events =
                           Put(@, CanonicalEvent(elem).wp_id, CanonicalEvent(elem))])

\* the for loop of lines 227-286 over events[i..], from the accumulated result
RECURSIVE ParseEventsFrom(_, _, _)
ParseEventsFrom(events, i, acc) ==
    IF i > Len(events) THEN acc
    ELSE LET elem == events[i]
         IN  IF EventError(elem) /= ""
             THEN ParseEventsFrom(events, i + 1,
                      [acc EXCEPT !.err = Append(@, <<elem, EventError(elem)>>)])
             ELSE ParseEventsFrom(events, i + 1,
                      [acc EXCEPT !.parsed_events =
                           Put(@, CanonicalEvent(elem).wp_id, CanonicalEvent(elem))])

parse_events(events) ==
    ParseEventsFrom(events, 1, [raised |-> FALSE, parsed_events |-> EmptyDict, err |-> <<>>])

(***************************************************************************)
(* The calendar service: events().insert / delete / update / list.  The    *)
(* service state is [calendar, next_event_id]; ok says whether the call    *)
(* gets through (FALSE: execute() raises).                                 *)
(***************************************************************************)
StoredEvent(event_id, body) ==
    [id |-> event_id, summary |-> body.summary, description |-> body.description,
     end |-> body.end]

HasEvent(service, event_id) ==
    \E i \in DOMAIN service.calendar : service.calendar[i].id = event_id

Insert(service, body) ==
    [calendar |-> Append(service.calendar, StoredEvent(service.next_event_id, body)),
     next_event_id |-> service.next_event_id + 1]

Delete(service, event_id) ==
    [service EXCEPT !.calendar = SelectSeq(@, LAMBDA e : e.id /= event_id)]

Update(service, event_id, body) ==
    [service EXCEPT !.calendar =
        [i \in DOMAIN @ |-> IF @[i].id = event_id THEN StoredEvent(event_id, body)
                            ELSE @[i]]]

(***************************************************************************)
(* to_create, to_delete, may_update: the result is                         *)
(*   [raised, err, calls, service]                                         *)
(* raised: an exception left the function; err: its return value (None or *)
(* Some(str(error))); calls: the service calls it made, each               *)
(* [op, event_id, ok]; service: the service state afterwards.              *)
(***************************************************************************)
Raised(service) == [raised |-> TRUE, err |-> None, calls |-> <<>>, service |-> service]

Returned(err, calls, service) ==
    [raised |-> FALSE, err |-> err, calls |-> calls, service |-> service]

\* slip: a failed insert is tried a second time
to_create_Retries(work_package, service, ok) ==
    LET event == wp_to_event(work_package)
        first == [op |-> "insert", event_id |-> 0, ok |-> ok]
    IN  IF event.raised THEN Raised(service)
        ELSE IF ok THEN Returned(None, <<first>>, Insert(service, event))
        ELSE Returned(None, <<first, [op |-> "insert", event_id |-> 0, ok |-> TRUE]>>,
                      Insert(service, event))

to_create(work_package, service, ok) ==
    LET event == wp_to_event(work_package)
    IN  IF event.raised THEN Raised(service)
        ELSE IF ok
        THEN Returned(None, <<[op |-> "insert", event_id |-> 0, ok |-> TRUE]>>,
                      Insert(service, event))
        ELSE Returned(Some("error"), <<[op |-> "insert", event_id |-> 0, ok |-> FALSE]>>,
                      service)

\* slip: the except branch returns nothing
to_delete_Swallows(parsed_event, service, ok) ==
    LET event_id == parsed_event.event_id
    IN  IF ok /\ HasEvent(service, event_id)
        THEN Returned(None, <<[op |-> "delete", event_id |-> event_id, ok |-> TRUE]>>,
                      Delete(service, event_id))
        ELSE Returned(None, <<[op |-> "delete", event_id |-> event_id, ok |-> FALSE]>>,
                      service)

to_delete(parsed_event, service, ok) ==
    LET event_id == parsed_event.event_id
    IN  IF ok /\ HasEvent(service, event_id)
        THEN Returned(None, <<[op |-> "delete", event_id |-> event_id, ok |-> TRUE]>>,
                      Delete(service, event_id))
        ELSE Returned(Some("error"),
                      <<[op |-> "delete", event_id |-> event_id, ok |-> FALSE]>>, service)

may_update(work_package, parsed_event, service, ok) ==
    IF Some(work_package.updated_at) /= parsed_event.updated_at
    THEN LET tmp == wp_to_event(work_package)
             event_id == parsed_event.event_id
         IN  IF tmp.raised THEN Raised(service)
             ELSE IF ok /\ HasEvent(service, event_id)
             THEN Returned(None, <<[op |-> "update", event_id |-> event_id, ok |-> TRUE]>>,
                           Update(service, event_id, tmp))
             ELSE Returned(Some("error"),
                           <<[op |-> "update", event_id |-> event_id, ok |-> FALSE]>>,
                           service)
    ELSE Returned(None, <<>>, service)

(***************************************************************************)
(* synchronize_wps, lines 474-479: the three id sets.                      *)
(***************************************************************************)
ToCreateSet(wps_on_openproject, wps_on_calendar) == wps_on_openproject \ wps_on_calendar

\* slip: every id on the calendar, matched or not
ToDeleteSet_AllOnCalendar(wps_on_openproject, wps_on_calendar) == wps_on_calendar

ToDeleteSet(wps_on_openproject, wps_on_calendar) == wps_on_calendar \ wps_on_openproject

MayUpdateSet(wps_on_openproject, wps_on_calendar) ==
    wps_on_calendar \cap wps_on_openproject

(***************************************************************************)
(* The snapshots the passes run on.                                        *)
(***************************************************************************)
MaxRecords == 3

BaseWp(i) ==
    [id |-> i, subject |-> Some("A"),
     description |-> Some([raw |-> Some("x"), html |-> "<p>x</p>"]),
     parent |-> None, assignee |-> Some("Bob"),
     dueDate |-> Some("2025-07-17"), customField19 |-> Some("09:30"),
     createdAt |-> "2025-05-23T10:52:34.297Z", updatedAt |-> "t1"]

\* the same task later: reassigned and modified
Changed(wp) == [wp EXCEPT !.assignee = Some("Eve"), !.updatedAt = "t2"]

\* reassigned, with the modification token unchanged
Reassigned(wp) == [wp EXCEPT !.assignee = Some("Eve")]

\* the description starts with the suppression marker
Hidden(wp) ==
    [wp EXCEPT !.description = Some([raw |-> Some("!!!\nx"), html |-> "<p>!!!</p>"])]

\* "subject": null
NullSubject(wp) == [wp EXCEPT !.subject = None]

\* no due date: the creation time stands in; untrimmed subject with a colon, a parent
Undated(wp) ==
    [wp EXCEPT !.subject = Some(" B: b "), !.dueDate = None,
               !.parent = Some([href |-> "/api/v3/work_packages/7", title |-> "Epic"])]

\* a due hour that is no time of day
BadHour(wp) == [wp EXCEPT !.customField19 = Some("24:00"), !.updatedAt = "t2"]

\* an assignee title and a token that end in a blank; a description with label-like lines
Padded(wp) ==
    [wp EXCEPT !.assignee = Some("Bob "), !.updatedAt = "t1 ",
               !.description =
                   Some([raw |-> Some("x"), html |-> "UpdatedAt: t0\nAssignee: Eve"])]

\* "description": null
NullDescription(wp) == [wp EXCEPT !.description = None]

WpPool ==
    {BaseWp(1), Changed(BaseWp(1)), Reassigned(BaseWp(1)), Hidden(BaseWp(1)),
     NullSubject(BaseWp(1)),
     Undated(BaseWp(2)), BadHour(BaseWp(2)), Padded(BaseWp(2)),
     NullDescription(BaseWp(3))}

SeqsOfLen(S, k) == [1..k -> S]

\* the task snapshots of k records: ids are unique and ascending
WpSnapshots(k) ==
    {w \in SeqsOfLen(WpPool, k) : \A i, j \in DOMAIN w : i < j => w[i].id < w[j].id}

\* the event an earlier pass made of a work package
Synced(wp) == wp_to_event(CanonicalTask(wp))

NoEnd == [dateTime |-> None, date |-> None]

EventPool ==
    {Synced(BaseWp(1)),
     [summary |-> Some("2:A"), description |-> Some("note"),
      end |-> [dateTime |-> None, date |-> Some("2025-07-17")]],
     [summary |-> Some("nosep"), description |-> None, end |-> NoEnd],
     [summary |-> Some("x1:foo"), description |-> Some("UpdatedAt: t1"), end |-> NoEnd]}

\* the calendars of k events, the calendar's ids in list order
Calendars(k) ==
    {[i \in DOMAIN bodies |-> StoredEvent(i, bodies[i])] :
        bodies \in SeqsOfLen(EventPool, k)}

(***************************************************************************)
(* The state: the two external systems, and one reconciliation pass.       *)
(***************************************************************************)
VARIABLES
    workpackages,     \* the tracker's task records
    calendar,         \* the calendar's events
    next_event_id,    \* the id the calendar gives the next inserted event
    pc,               \* idle, parsed, create, delete, update, returned, raised
    raised_in,        \* the function an exception left when pc = "raised", else ""
    events,           \* the event snapshot of this pass
    parsed_wps, wps_err, parsed_events, events_err,
    to_create_set, to_delete_set, may_update_set,
    todo,             \* the ids the running for loop has not visited yet
    to_create_err, to_delete_err, may_update_err,
    log,              \* this pass: one entry per loop iteration
    prev,             \* the pass before: how it ended, the calls that failed and succeeded,
                      \*   the ids whose event had no token
    date_arg,         \* a call of str_to_date: its due_date
    hour_arg,         \*   its due_hour, None or Some(str)
    date_result       \*   None before the call, then Some(result)

vars ==
    <<workpackages, calendar, next_event_id, pc, raised_in, events, parsed_wps, wps_err,
      parsed_events, events_err, to_create_set, to_delete_set, may_update_set, todo,
      to_create_err, to_delete_err, may_update_err, log, prev,
      date_arg, hour_arg, date_result>>

\* the variables of a call of str_to_date
date_vars == <<date_arg, hour_arg, date_result>>

Init ==
    /\ \E k \in 0..MaxRecords, m \in 0..MaxRecords :
           /\ k + m <= MaxRecords
           /\ workpackages \in WpSnapshots(k)
           /\ calendar \in Calendars(m)
    /\ next_event_id = Len(calendar) + 1
    /\ pc = "idle"
    /\ raised_in = ""
    /\ events = <<>>
    /\ parsed_wps = EmptyDict /\ wps_err = <<>>
    /\ parsed_events = EmptyDict /\ events_err = <<>>
    /\ to_create_set = {} /\ to_delete_set = {} /\ may_update_set = {}
    /\ todo = {}
    /\ to_create_err = <<>> /\ to_delete_err = <<>> /\ may_update_err = <<>>
    /\ log = <<>>
    /\ prev = [pc |-> "idle", failed |-> {}, succeeded |-> {}, unset |-> {}]
    /\ date_arg = "" /\ hour_arg = None /\ date_result = None

\* the <<loop, wp_id>> of the iterations of l that made a call with outcome ok
CallsOf(l, ok) ==
    {<<l[i].loop, l[i].wp_id>> : i \in {j \in DOMAIN l :
        \E c \in DOMAIN l[j].calls : l[j].calls[c].ok = ok}}

\* A pass starts: both snapshots are read and parsed.
Parse ==
    /\ pc \in {"idle", "returned", "raised"}
    /\ prev' = [pc |-> pc, failed |-> CallsOf(log, FALSE), succeeded |-> CallsOf(log, TRUE),
                 unset |-> {k \in DOMAIN parsed_events : parsed_events[k].updated_at = None}]
    /\ events' = calendar
    /\ LET wps == parse_workpackages(workpackages)
           evs == parse_events(calendar)
       IN  /\ parsed_wps' = wps.parsed_wps /\ wps_err' = wps.err
           /\ IF wps.raised
              THEN /\ pc' = "raised" /\ raised_in' = "parse_workpackages"
                   /\ parsed_events' = EmptyDict /\ events_err' = <<>>
              ELSE /\ parsed_events' = evs.parsed_events /\ events_err' = evs.err
                   /\ IF evs.raised
                      THEN pc' = "raised" /\ raised_in' = "parse_events"
                      ELSE pc' = "parsed" /\ raised_in' = ""
    /\ to_create_set' = {} /\ to_delete_set' = {} /\ may_update_set' = {}
    /\ todo' = {}
    /\ to_create_err' = <<>> /\ to_delete_err' = <<>> /\ may_update_err' = <<>>
    /\ log' = <<>>
    /\ UNCHANGED <<workpackages, calendar, next_event_id, date_vars>>

\* the loop that runs first among create, delete, update; returned when none has an id
\* slip: the delete loop written before the create loop
FirstLoop_DeleteFirst(cs, ds, us) ==
    IF ds /= {} THEN "delete"
    ELSE IF cs /= {} THEN "create"
    ELSE IF us /= {} THEN "update"
    ELSE "returned"

FirstLoop(cs, ds, us) ==
    IF cs /= {} THEN "create"
    ELSE IF ds /= {} THEN "delete"
    ELSE IF us /= {} THEN "update"
    ELSE "returned"

LoopSet(loop, cs, ds, us) ==
    IF loop = "create" THEN cs
    ELSE IF loop = "delete" THEN ds
    ELSE IF loop = "update" THEN us
    ELSE {}

\* synchronize_wps, lines 474-480
Classify ==
    /\ pc = "parsed"
    /\ LET wps_on_openproject == DOMAIN parsed_wps
           wps_on_calendar == DOMAIN parsed_events
           cs == ToCreateSet(wps_on_openproject, wps_on_calendar)
           ds == ToDeleteSet(wps_on_openproject, wps_on_calendar)
           us == MayUpdateSet(wps_on_openproject, wps_on_calendar)
       IN  /\ to_create_set' = cs /\ to_delete_set' = ds /\ may_update_set' = us
           /\ pc' = FirstLoop(cs, ds, us)
           /\ todo' = LoopSet(FirstLoop(cs, ds, us), cs, ds, us)
    /\ to_create_err' = <<>> /\ to_delete_err' = <<>> /\ may_update_err' = <<>>
    /\ UNCHANGED <<workpackages, calendar, next_event_id, raised_in, events, parsed_wps,
                   wps_err, parsed_events, events_err, log, prev, date_vars>>

\* the function a loop calls
LoopFunction(loop) ==
    IF loop = "create" THEN "to_create"
    ELSE IF loop = "delete" THEN "to_delete"
    ELSE "may_update"

\* the ids a for loop still visits after wp_id
Rest(ids, wp_id) == ids \ {wp_id}

\* One iteration of a for loop of lines 483-494 ended with result r; after the
\* last one the next loop starts, or synchronize_wps returns.
Iterate(loop, wp_id, r) ==
    /\ log' = Append(log, [loop |-> loop, wp_id |-> wp_id, calls |-> r.calls,
                           raised |-> r.raised])
    /\ calendar' = r.service.calendar
    /\ next_event_id' = r.service.next_event_id
    /\ IF r.raised
       THEN /\ pc' = "raised"
            /\ raised_in' = LoopFunction(loop)
            /\ UNCHANGED <<todo, to_create_err, to_delete_err, may_update_err>>
       ELSE /\ raised_in' = raised_in
            /\ to_create_err' =
                   IF loop = "create" THEN Append(to_create_err, r.err) ELSE to_create_err
            /\ to_delete_err' =
                   IF loop = "delete" THEN Append(to_delete_err, r.err) ELSE to_delete_err
            /\ may_update_err' =
                   IF loop = "update" THEN Append(may_update_err, r.err) ELSE may_update_err
            /\ LET rest == Rest(todo, wp_id)
                   next == IF loop = "create"
                           THEN FirstLoop({}, to_delete_set, may_update_set)
                           ELSE IF loop = "delete" THEN FirstLoop({}, {}, may_update_set)
                           ELSE "returned"
               IN  IF rest /= {}
                   THEN pc' = loop /\ todo' = rest
                   ELSE /\ pc' = next
                        /\ todo' = LoopSet(next, {}, to_delete_set, may_update_set)
    /\ UNCHANGED <<workpackages, events, parsed_wps, wps_err, parsed_events, events_err,
                   to_create_set, to_delete_set, may_update_set, prev, date_vars>>

Service == [calendar |-> calendar, next_event_id |-> next_event_id]

\* lines 483-485
CreateStep ==
    /\ pc = "create"
    /\ \E wp_id \in todo, ok \in BOOLEAN :
           Iterate("create", wp_id, to_create(parsed_wps[wp_id], Service, ok))

\* lines 487-489
DeleteStep ==
    /\ pc = "delete"
    /\ \E wp_id \in todo, ok \in BOOLEAN :
           Iterate("delete", wp_id, to_delete(parsed_events[wp_id], Service, ok))

\* lines 491-494
UpdateStep ==
    /\ pc = "update"
    /\ \E wp_id \in todo, ok \in BOOLEAN :
           Iterate("update", wp_id,
                   may_update(parsed_wps[wp_id], parsed_events[wp_id], Service, ok))

Next == Parse \/ Classify \/ CreateStep \/ DeleteStep \/ UpdateStep

Spec == Init /\ [][Next]_vars

\* The calendar call made for wp_id, if one is made, succeeds.
CallSucceeds(wp_id) ==
    /\ wp_id \in todo
    /\ \/ pc = "create" /\ Iterate("create", wp_id, to_create(parsed_wps[wp_id], Service, TRUE))
       \/ pc = "delete" /\ Iterate("delete", wp_id, to_delete(parsed_events[wp_id], Service, TRUE))
       \/ pc = "update" /\ Iterate("update", wp_id,
              may_update(parsed_wps[wp_id], parsed_events[wp_id], Service, TRUE))

\* Passes are run again and again, a pass that has parsed its snapshots runs
\* on, and the calls for an id do not fail forever.  The step for wp_id is
\* enabled exactly when wp_id \in todo, so strong fairness of CallSucceeds is
\* written with that condition.
FairSpec ==
    /\ Spec
    /\ WF_vars(Classify)
    /\ WF_vars(DeleteStep)
    /\ []<><<Parse>>_vars
    /\ \A wp_id \in 1..MaxRecords :
           []<>(wp_id \in todo) => []<><<CallSucceeds(wp_id)>>_vars

(***************************************************************************)
(* str_to_date on its own: one call on a date and a time of the pools.     *)
(***************************************************************************)
\* <<year, month, day>>, calendar dates and others
DatePool == {<<y, m, d>> : y \in {2024, 2025}, m \in {2, 7, 12}, d \in {1, 17, 29, 31}}

\* "YYYY-MM-DD"
DateText(d) == Pad4(d[1]) \o "-" \o Pad2(d[2]) \o "-" \o Pad2(d[3])

HourPool ==
    {None, Some(""), Some("09"), Some("09:30"), Some("09:30:15"), Some("09:30:15.297"),
     Some("09:30:15.9"), Some("23:59:59"), Some("24:00"), Some("abc"), Some("1:2:3:4")}

DateInit ==
    /\ workpackages = <<>> /\ calendar = <<>>
    /\ next_event_id = 1
    /\ pc = "idle"
    /\ raised_in = ""
    /\ events = <<>>
    /\ parsed_wps = EmptyDict /\ wps_err = <<>>
    /\ parsed_events = EmptyDict /\ events_err = <<>>
    /\ to_create_set = {} /\ to_delete_set = {} /\ may_update_set = {}
    /\ todo = {}
    /\ to_create_err = <<>> /\ to_delete_err = <<>> /\ may_update_err = <<>>
    /\ log = <<>>
    /\ prev = [pc |-> "idle", failed |-> {}, succeeded |-> {}, unset |-> {}]
    /\ \E d \in DatePool : date_arg = DateText(d)
    /\ hour_arg \in HourPool
    /\ date_result = None

\* the call str_to_date(due_date, due_hour)
CallStrToDate ==
    /\ date_result = None
    /\ date_result' = Some(str_to_date(date_arg, hour_arg))
    /\ UNCHANGED <<workpackages, calendar, next_event_id, pc, raised_in, events, parsed_wps,
                   wps_err, parsed_events, events_err, to_create_set, to_delete_set,
                   may_update_set, todo, to_create_err, to_delete_err, may_update_err,
                   log, prev, date_arg, hour_arg>>

DateNext == CallStrToDate

DateSpec == DateInit /\ [][DateNext]_vars

(***************************************************************************)
(* Properties.                                                             *)
(***************************************************************************)
\* synchronize_wps has computed the three sets in this pass
Classified ==
    \/ pc \in {"create", "delete", "update", "returned"}
    \/ pc = "raised" /\ raised_in \in {"to_create", "to_delete", "may_update"}

\* the pass is over: synchronize_wps returned, or an exception ended the pass
PassOver == pc \in {"returned", "raised"}

\* the calls made for wp_id in a loop, each <<iteration, call>>
CallsFor(loop, wp_id) ==
    UNION {{<<i, c>> : c \in DOMAIN log[i].calls} :
              i \in {j \in DOMAIN log : log[j].loop = loop /\ log[j].wp_id = wp_id}}

AllCalls ==
    UNION {{<<i, c>> : c \in DOMAIN log[i].calls} : i \in DOMAIN log}

CallAt(at) == log[at[1]].calls[at[2]]

\* C1: the three sets are T \ E, E \ T and T \cap E of the parsed mappings' id
\* sets T and E: pairwise disjoint, and together T \cup E.
IdsPartitioned ==
    Classified =>
        LET T == DOMAIN parsed_wps
            E == DOMAIN parsed_events
        IN  /\ to_create_set = T \ E
            /\ to_delete_set = E \ T
            /\ may_update_set = T \cap E
            /\ to_create_set \cap to_delete_set = {}
            /\ to_create_set \cap may_update_set = {}
            /\ to_delete_set \cap may_update_set = {}
            /\ to_create_set \cup to_delete_set \cup may_update_set = T \cup E

IdsPartitionedWitness ==
    /\ Classified
    /\ to_delete_set /= {} /\ may_update_set /= {}
    /\ DOMAIN parsed_wps /= DOMAIN parsed_events

\* the update call was made for wp_id in this pass
UpdateInvoked(wp_id) == \E at \in CallsFor("update", wp_id) : CallAt(at).op = "update"

TokensDiffer(wp_id) == Some(parsed_wps[wp_id].updated_at) /= parsed_events[wp_id].updated_at

\* C2: when the pass is over, the update call was made for an id of may_update
\* exactly if the task's updated_at differs from the event's decoded UpdatedAt.
UpdateIffTokensDiffer ==
    (PassOver /\ Classified) =>
        \A wp_id \in may_update_set : UpdateInvoked(wp_id) <=> TokensDiffer(wp_id)

\* the ids the loops visited and got a return value for
Visited(loop) == {log[i].wp_id : i \in {j \in DOMAIN log : log[j].loop = loop /\ ~log[j].raised}}

\* C3: no exception leaves synchronize_wps: a pass that has classified its ids
\* ends returned, every id of the three sets visited and every failed call
\* recorded as an error string.
FailuresIsolated ==
    /\ raised_in \notin {"to_create", "to_delete", "may_update"}
    /\ (pc = "returned" =>
           /\ Visited("create") = to_create_set
           /\ Visited("delete") = to_delete_set
           /\ Visited("update") = may_update_set
           /\ Len(to_create_err) + Len(to_delete_err) + Len(may_update_err) = Len(log))

\* the record's raw description starts with the line "!!!"
Marked(elem) ==
    /\ elem.description /= None
    /\ Val(elem.description).raw /= None
    /\ Split(Val(Val(elem.description).raw), "\n")[1] = "!!!"

\* C4: parse_workpackages never raises; a record that raises is in the error
\* list once, and every other unmarked record is in the mapping.
ParserNeverAborts ==
    /\ raised_in /= "parse_workpackages"
    /\ (pc = "parsed" =>
           \A i \in DOMAIN workpackages :
               LET elem == workpackages[i]
               IN  IF elem.subject = None
                   THEN Cardinality({j \in DOMAIN wps_err : wps_err[j][1] = elem}) = 1
                   ELSE ~Marked(elem) => elem.id \in DOMAIN parsed_wps)

\* the summary holds a ":"
HasSeparator(elem) ==
    \E i \in 1..Len(OrEmpty(elem.summary)) : Ch(OrEmpty(elem.summary), i) = ":"

\* the text before the first ":"
BeforeSeparator(elem) ==
    LET summary == OrEmpty(elem.summary)
        first == CHOOSE i \in 1..Len(summary) :
                     Ch(summary, i) = ":" /\ \A j \in 1..(i - 1) : Ch(summary, j) /= ":"
    IN  SubSeq(summary, 1, first - 1)

MalformedSummary(elem) == ~HasSeparator(elem) \/ ~IsInt(BeforeSeparator(elem))

WellFormedEvent(elem) ==
    /\ ~MalformedSummary(elem)
    /\ Truthy(elem.end.dateTime) => IsoParseOk(Val(elem.end.dateTime))

\* parse_events ran in this pass
EventsParsed == pc /= "idle" /\ raised_in /= "parse_workpackages"

\* C5: an event whose summary has no ":" or no integer before it is not in the
\* mapping and is in the error list exactly once; parse_events does not raise,
\* and every well-formed event is returned under its wp_id (the last one when
\* several share it).
MalformedEventsIsolated ==
    EventsParsed =>
        LET decoded == [i \in DOMAIN events |->
                           IF WellFormedEvent(events[i])
                           THEN Some(ToInt(BeforeSeparator(events[i]))) ELSE None]
        IN  /\ raised_in /= "parse_events"
            /\ \A i \in DOMAIN events :
                   LET elem == events[i]
                   IN  IF MalformedSummary(elem)
                       THEN /\ \A k \in DOMAIN parsed_events :
                                   parsed_events[k].event_id /= elem.id
                            /\ Cardinality({j \in DOMAIN events_err :
                                                events_err[j][1] = elem}) = 1
                       ELSE decoded[i] /= None =>
                            /\ Val(decoded[i]) \in DOMAIN parsed_events
                            /\ (\A j \in DOMAIN events : j > i => decoded[j] /= decoded[i])
                               => parsed_events[Val(decoded[i])].event_id = elem.id

MalformedEventsIsolatedWitness ==
    /\ pc = "parsed"
    /\ \E i, j, k \in DOMAIN events :
           /\ i < k /\ j < k
           /\ ~HasSeparator(events[i])
           /\ HasSeparator(events[j]) /\ MalformedSummary(events[j])
           /\ WellFormedEvent(events[k])

\* C6: a parsed task that wp_to_event maps and parse_events reads back keeps
\* its wp_id, subject, assignee, updated_at and due_hour.
RoundTrip ==
    pc = "parsed" =>
        \A wp_id \in DOMAIN parsed_wps :
            LET wp == parsed_wps[wp_id]
                body == wp_to_event(wp)
                back == parse_events(<<StoredEvent(1, body)>>)
            IN  ~body.raised =>
                    /\ back.err = <<>>
                    /\ DOMAIN back.parsed_events = {wp.wp_id}
                    /\ back.parsed_events[wp.wp_id].subject = wp.subject
                    /\ back.parsed_events[wp.wp_id].assignee = Some(wp.assignee)
                    /\ back.parsed_events[wp.wp_id].updated_at = Some(wp.updated_at)
                    /\ back.parsed_events[wp.wp_id].due_hour = Some(wp.due_hour)

\* the events of the snapshot that decode to wp_id
EventsOf(wp_id) ==
    {i \in DOMAIN events :
        WellFormedEvent(events[i]) /\ ToInt(BeforeSeparator(events[i])) = wp_id}

\* C7: when the pass is over, a task marked "!!!" is not in the task mapping
\* nor in to_create, and if the snapshot holds an event of its id, the id is in
\* to_delete and the delete call was made for it.
SuppressedTaskRemoved ==
    PassOver =>
        \A i \in DOMAIN workpackages :
            Marked(workpackages[i]) =>
                LET wp_id == workpackages[i].id
                IN  /\ wp_id \notin DOMAIN parsed_wps
                    /\ wp_id \notin to_create_set
                    /\ EventsOf(wp_id) /= {} =>
                           /\ wp_id \in to_delete_set
                           /\ \E at \in CallsFor("delete", wp_id) : CallAt(at).op = "delete"

\* C8: after a pass that returned with every call successful, the next pass
\* has nothing to create or delete and makes no call.
Idempotent ==
    (prev.pc = "returned" /\ prev.failed = {} /\ Classified) =>
        /\ to_create_set = {}
        /\ to_delete_set = {}
        /\ AllCalls = {}

\* C9: in a pass each id is visited at most once and at most one call is made
\* for it, of its loop's kind; when synchronize_wps returns, each id of
\* to_create and to_delete had exactly one call, and each failed call is
\* recorded once.
ErrorCount(errs) == Cardinality({i \in DOMAIN errs : errs[i] /= None})

FailedCalls(loop) ==
    {at \in AllCalls : log[at[1]].loop = loop /\ ~CallAt(at).ok}

NoRetry ==
    /\ \A i, j \in DOMAIN log : i /= j => log[i].wp_id /= log[j].wp_id
    /\ \A i \in DOMAIN log :
           /\ Len(log[i].calls) <= 1
           /\ \A c \in DOMAIN log[i].calls :
                  log[i].calls[c].op =
                      (IF log[i].loop = "create" THEN "insert" ELSE log[i].loop)
    /\ ErrorCount(to_create_err) = Cardinality(FailedCalls("create"))
    /\ ErrorCount(to_delete_err) = Cardinality(FailedCalls("delete"))
    /\ ErrorCount(may_update_err) = Cardinality(FailedCalls("update"))
    /\ (pc = "returned" =>
           /\ \A wp_id \in to_create_set : Cardinality(CallsFor("create", wp_id)) = 1
           /\ \A wp_id \in to_delete_set : Cardinality(CallsFor("delete", wp_id)) = 1)

NoRetryWitness ==
    /\ pc = "returned"
    /\ FailedCalls("create") /= {}
    /\ \E at \in AllCalls : CallAt(at).ok

\* the calendar's events that decode to wp_id
OnCalendar(wp_id) ==
    {i \in DOMAIN calendar :
        WellFormedEvent(calendar[i]) /\ ToInt(BeforeSeparator(calendar[i])) = wp_id}

\* a pass returned without a call, every parsed task has an event with its
\* token and every decodable event belongs to a parsed task
Stable ==
    /\ pc = "returned"
    /\ AllCalls = {}
    /\ \A wp_id \in DOMAIN parsed_wps :
           \E i \in OnCalendar(wp_id) :
               CanonicalEvent(calendar[i]).updated_at = Some(parsed_wps[wp_id].updated_at)
    /\ \A i \in DOMAIN calendar :
           WellFormedEvent(calendar[i]) =>
               ToInt(BeforeSeparator(calendar[i])) \in DOMAIN parsed_wps

\* the ids whose call failed in the last pass are in the same set again, and
\* a pass that returned has made the call again
Reattempted ==
    Classified =>
        \A f \in prev.failed :
            /\ f[2] \in LoopSet(f[1], to_create_set, to_delete_set, may_update_set)
            /\ pc = "returned" => CallsFor(f[1], f[2]) /= {}

\* C10: a failed call is made again by the next pass, and when passes are
\* repeated and calls do not fail forever, the system reaches a state where
\* every task has an event with its current token, no event is left for an id
\* outside the task snapshot and a pass makes no call.
SelfHealing == []Reattempted /\ <>Stable

\* the place of a loop in the pass
Rank(loop) == IF loop = "create" THEN 1 ELSE IF loop = "delete" THEN 2 ELSE 3

\* the loop has started in this pass
Started(loop) == \E i \in DOMAIN log : log[i].loop = loop

\* C11: the calls of a pass are made category by category: no create follows
\* a delete or an update and no delete follows an update, and when the first
\* delete is made every id of to_create has had its call, when the first
\* update is made every id of to_delete has had its call.
CallsByCategory ==
    /\ \A i, j \in DOMAIN log : i < j => Rank(log[i].loop) <= Rank(log[j].loop)
    /\ (Started("delete") \/ Started("update")) =>
           \A wp_id \in to_create_set : CallsFor("create", wp_id) /= {}
    /\ Started("update") =>
           \A wp_id \in to_delete_set : CallsFor("delete", wp_id) /= {}

CallsByCategoryWitness ==
    /\ pc = "returned"
    /\ \E i, j \in DOMAIN log :
           /\ log[i].loop = "create" /\ log[i].calls /= <<>>
           /\ log[j].loop = "delete" /\ log[j].calls /= <<>>

\* the time of day a time string stands for
Expected(hour) ==
    CASE hour = Some("09") -> <<9, 0, 0>>
      [] hour = Some("09:30") -> <<9, 30, 0>>
      [] hour \in {Some("09:30:15"), Some("09:30:15.297"), Some("09:30:15.9")} -> <<9, 30, 15>>
      [] hour \in {None, Some("")} -> <<0, 0, 0>>

\* the time strings the statement is about
Stated ==
    {None, Some(""), Some("09"), Some("09:30"), Some("09:30:15"), Some("09:30:15.297"),
     Some("09:30:15.9")}

\* C12: for a calendar date D, str_to_date gives D 09:00:00 for "09",
\* D 09:30:00 for "09:30", D 09:30:15 for "09:30:15", midnight of D for "" and
\* for a missing time, and drops the fraction of the seconds.
TimeNormalized ==
    (date_result /= None /\ hour_arg \in Stated) =>
        \A d \in DatePool :
            (date_arg = DateText(d) /\ d[3] <= DaysInMonth(d[1], d[2])) =>
                /\ ~Val(date_result).raised
                /\ Val(date_result).value =
                       [year |-> d[1], month |-> d[2], day |-> d[3],
                        hour |-> Expected(hour_arg)[1], minute |-> Expected(hour_arg)[2],
                        second |-> Expected(hour_arg)[3], microsecond |-> 0]

TimeNormalizedWitness ==
    /\ date_result /= None
    /\ date_arg = "2024-02-29"
    /\ hour_arg = Some("09:30:15.9")
    /\ ~Val(date_result).raised

\* the iterations of a loop in this pass, in order
LoopEntries(loop) == SelectSeq(log, LAMBDA e : e.loop = loop)

\* errs has one entry per id of ids, in the order the loop visited them: None
\* when the iteration made no call or a successful one, a string otherwise
Parallel(errs, ids, loop) ==
    LET entries == LoopEntries(loop)
    IN  /\ Len(errs) = Cardinality(ids)
        /\ Len(entries) = Len(errs)
        /\ {entries[i].wp_id : i \in DOMAIN entries} = ids
        /\ \A i \in DOMAIN entries :
               IF \E c \in DOMAIN entries[i].calls : ~entries[i].calls[c].ok
               THEN errs[i] /= None /\ Val(errs[i]) \in STRING
               ELSE errs[i] = None

\* C13: when synchronize_wps returns, each error list has one entry per id of
\* its set, in iteration order: None for a success or for equal tokens, the
\* error string for a failed call.
ErrorListsParallel ==
    pc = "returned" =>
        /\ Parallel(to_create_err, to_create_set, "create")
        /\ Parallel(to_delete_err, to_delete_set, "delete")
        /\ Parallel(may_update_err, may_update_set, "update")

ErrorListsParallelWitness ==
    /\ pc = "returned"
    /\ \E i \in DOMAIN to_create_err : to_create_err[i] /= None
    /\ \E i \in DOMAIN log : log[i].loop = "update" /\ log[i].calls = <<>>
    /\ may_update_err /= <<>> /\ \A i \in DOMAIN may_update_err : may_update_err[i] = None

\* the last event of the snapshot that decodes to wp_id
LastOf(wp_id) == CHOOSE i \in EventsOf(wp_id) : \A j \in EventsOf(wp_id) : j <= i

\* C14: of the well-formed events of a snapshot that decode to one wp_id, the
\* mapping holds the last; every delete and update call of the pass names
\* that event's id, and the other events of the id are on the calendar as
\* they were, in every pass.
LastDuplicateOnly ==
    (EventsParsed /\ raised_in /= "parse_events") =>
        LET decoded == [i \in DOMAIN events |->
                           IF WellFormedEvent(events[i])
                           THEN Some(ToInt(BeforeSeparator(events[i]))) ELSE None]
        IN  \A i \in DOMAIN events :
                decoded[i] /= None =>
                    LET wp_id == Val(decoded[i])
                        calls == CallsFor("delete", wp_id) \cup CallsFor("update", wp_id)
                    IN  /\ wp_id \in DOMAIN parsed_events
                        /\ IF \E j \in DOMAIN events : j > i /\ decoded[j] = decoded[i]
                           THEN /\ parsed_events[wp_id].event_id /= events[i].id
                                /\ \A at \in calls : CallAt(at).event_id /= events[i].id
                                /\ \E j \in DOMAIN calendar : calendar[j] = events[i]
                           ELSE /\ parsed_events[wp_id].event_id = events[i].id
                                /\ \A at \in calls : CallAt(at).event_id = events[i].id

LastDuplicateOnlyWitness ==
    /\ pc = "returned"
    /\ prev.pc = "returned"
    /\ \E wp_id \in to_delete_set :
           /\ Cardinality(EventsOf(wp_id)) >= 2
           /\ <<"delete", wp_id>> \in prev.failed
           /\ \E at \in CallsFor("delete", wp_id) : CallAt(at).ok

\* the description has a line that starts with the UpdatedAt: label
HasTokenLine(elem) ==
    \E i \in DOMAIN StrippedLines(OrEmpty(elem.description)) :
        StartsWith(StrippedLines(OrEmpty(elem.description))[i], "UpdatedAt:")

\* an event without the label is parsed with updated_at unset
TokenUnset ==
    (EventsParsed /\ raised_in /= "parse_events") =>
        \A wp_id \in DOMAIN parsed_events :
            ~HasTokenLine(events[LastOf(wp_id)]) => parsed_events[wp_id].updated_at = None

\* when the pass is over, the update call was made for every id of may_update
\* whose event has no token
UnsetTokenUpdated ==
    (PassOver /\ Classified) =>
        \A wp_id \in may_update_set :
            parsed_events[wp_id].updated_at = None => UpdateInvoked(wp_id)

\* after a successful update of an event that had no token, the event has
\* the task's token and no update call is made for the id
UpdatedOnce ==
    Classified =>
        \A wp_id \in prev.unset \cap may_update_set :
            <<"update", wp_id>> \in prev.succeeded =>
                /\ parsed_events[wp_id].updated_at = Some(parsed_wps[wp_id].updated_at)
                /\ ~UpdateInvoked(wp_id)

\* C15: an event without an UpdatedAt: line is parsed with updated_at unset;
\* if its id is in may_update the update call is made whatever the task's
\* token is, and after a successful update the next pass finds the task's
\* token on the event and makes no update call for the id.
MissingTokenUpdatedOnce == TokenUnset /\ UnsetTokenUpdated /\ UpdatedOnce

====
